---------------------------- MODULE Spec2Model ----------------------------
(***************************************************************************)
(* Model of the cvChain chaincode (src/cvChain/cvChain.go): a record store *)
(* over a key-addressed ledger with a plaintext path (addRecord,           *)
(* getRecord) and an AES-256 path (encRecord, decRecord) whose key and IV  *)
(* arrive in the transaction's transient map.                              *)
(*                                                                         *)
(* Strings are sequences of one-character strings.  Secret byte strings    *)
(* (keys, IVs) are named values with a length.  A ledger value is either   *)
(* the plaintext bytes of a composite value or a ciphertext, kept          *)
(* symbolically as (iv, key, plaintext): the AES-CBC-PKCS7 output          *)
(* iv || CBC_key,iv(pad(plaintext)).                                       *)
(***************************************************************************)
EXTENDS Naturals, Sequences, FiniteSets

VARIABLES
    ledger,     \* the world state: composite key string -> stored value
    lastWrite,  \* history: per composite key, the last successful write
    pc,         \* "idle": awaiting a transaction; "returned": Invoke returned
    call,       \* the transaction proposal Invoke was called with
    resp,       \* the peer.Response Invoke returned
    effects     \* the collaborator calls Invoke made, in order

vars == <<ledger, lastWrite, pc, call, resp, effects>>

(***************************** bounds **************************************)

\* Longest field1 string a caller passes.
MaxFieldLen == 1

(*************************** program constants *****************************)

DECKEY == "DECKEY"
ENCKEY == "ENCKEY"
IV == "IV"

\* AES-256: the key imported by NewAES256EncrypterEntity has 32 bytes.
AES256KeyLen == 32

Colon == ":"

(****************************** inputs *************************************)

StringsUpTo(chars, n) == UNION {[1..k -> chars] : k \in 0..n}

\* (namespace, id) pairs; the last two serialise to the same composite key.
KeyPairs ==
    { <<(<<"a">>), (<<"b">>)>>,
      <<(<<"a">>), (<<":", "b">>)>>,
      <<(<<"a", ":">>), (<<"b">>)>> }

Field1s == StringsUpTo({"x", Colon}, MaxFieldLen)
Field2s == {<<"y">>}

Args4 == {<<p[1], p[2], f1, f2>> : p \in KeyPairs, f1 \in Field1s, f2 \in Field2s}
Args2 == {<<p[1], p[2]>> : p \in KeyPairs}
\* Argument lists of a length no operation accepts (3 and 5).
ArgsOdd == { <<(<<"a">>), (<<"b">>), (<<"x">>)>>,
             <<(<<"a">>), (<<"b">>), (<<"x">>), (<<"y">>), (<<"z">>)>> }

\* Secret byte strings and their lengths; "nil" is Go's nil slice.
NilBytes == "nil"
ByteLen(b) ==
    CASE b = "K1" -> 32
      [] b = "K2" -> 32
      [] b = "Kshort" -> 16
      [] b = "V1" -> 16
      [] b = "V2" -> 16
      [] b = "V3" -> 16
      [] b = "Vshort" -> 8
      [] OTHER -> 0

KeyBytes == {"K1", "K2", "Kshort"}
IVBytes == {"V1", "Vshort"}
\* The IVs the cipher's random source may draw when none is supplied (a
\* fresh block, none of the IVs a caller supplies).
RandomIVs == {"V2", "V3"}

\* Transient maps: at most one key entry and at most one IV entry.
NoSecrets == [l \in {} |-> NilBytes]
OneKey(label, k) == [l \in {label} |-> k]
KeyAndIV(label, k, v) == [l \in {label, IV} |-> IF l = IV THEN v ELSE k]
\* The bundles sent with an operation whose key label is `label`: without
\* that label (empty, or holding only the other operation's key), with a
\* key alone, and with a key and an IV.
BundlesFor(label, other) ==
    {NoSecrets, OneKey(other, "K1")}
    \cup {OneKey(label, k) : k \in KeyBytes}
    \cup {KeyAndIV(label, "K1", v) : v \in IVBytes}

\* tMap[label], nil when the label is absent.
Lookup(tMap, label) == IF label \in DOMAIN tMap THEN tMap[label] ELSE NilBytes


(************************** strings and values *****************************)

\* a + ":" + b, the serialisation of a composite key or composite value.
Join(a, b) == a \o <<Colon>> \o b

\* strings.Split(s, ":")[0]: the prefix of s before its first colon.
RECURSIVE SplitFirst(_)
SplitFirst(s) ==
    IF s = <<>> \/ Head(s) = Colon THEN <<>>
    ELSE <<Head(s)>> \o SplitFirst(Tail(s))

HasColon(s) == \E i \in 1..Len(s) : s[i] = Colon

LedgerKeys == {Join(p[1], p[2]) : p \in KeyPairs}

\* What the ledger holds under a key: nothing (GetState returns nil),
\* plaintext bytes, or a ciphertext iv || CBC_key,iv(pad(body)).
NoValue == [kind |-> "nil", body |-> <<>>, key |-> NilBytes, iv |-> NilBytes]
Plain(s) == [kind |-> "plain", body |-> s, key |-> NilBytes, iv |-> NilBytes]
Cipher(k, v, pt) == [kind |-> "cipher", body |-> pt, key |-> k, iv |-> v]

\* stub.PutState and stub.GetState on a ledger that does not fault.
PutState(L, key, value) == [L EXCEPT ![key] = value]
GetState(L, key) == L[key]

(******************************* responses *********************************)

\* shim.Success(payload).  raw is set instead of payload when the payload is
\* the leading bytes of a ciphertext (getRecord on an encrypted record).
Success(p) ==
    [ok |-> TRUE, msg |-> "", arg |-> <<>>, inner |-> "", payload |-> p, raw |-> NoValue]
SuccessRaw(v) ==
    [ok |-> TRUE, msg |-> "", arg |-> <<>>, inner |-> "", payload |-> <<>>, raw |-> v]
\* shim.Error(message): the message's fixed text, the argument formatted
\* into it, and the text of the wrapped error.
Error(m, a, i) ==
    [ok |-> FALSE, msg |-> m, arg |-> a, inner |-> i, payload |-> <<>>, raw |-> NoValue]

NoResp == Error("none", <<>>, "")
NoCall == [fn |-> "none", args |-> <<>>, tMap |-> NoSecrets]

\* What a handler leaves behind: its response, the ledger, its collaborator calls.
Outcome(r, L, e) == [resp |-> r, ledger |-> L, effects |-> e]

\* The error kinds of the specification's taxonomy, by message.
ErrorKind(r) ==
    CASE r.ok -> "none"
      [] r.msg \in {"Incorrect arguments. Expecting a key and a value",
                    "Incorrect arguments. Expecting a key",
                    "Expected 4 parameters to function Encrypter",
                    "Expected 2 parameters to function Decrypter"} -> "ArgumentError"
      [] r.msg \in {"Expected transient encryption key",
                    "Expected transient decryption key"} -> "MissingSecretError"
      [] r.msg = "entities.NewAES256EncrypterEntity failed" -> "CryptoInitError"
      [] r.msg = "Failed to set asset" -> "StorageWriteError"
      [] r.msg = "Failed to get asset" -> "StorageReadError"
      [] r.msg = "Asset not found" -> "NotFoundError"
      [] r.msg = "Unsupported function" -> "UnsupportedOperationError"
      [] r.msg = "encryptAndPutState failed" /\ r.inner = "put failed" -> "StorageWriteError"
      [] r.msg = "encryptAndPutState failed" -> "EncryptionError"
      [] r.msg = "getStateAndDecrypt failed" /\ r.inner = "get failed" -> "StorageReadError"
      [] r.msg = "getStateAndDecrypt failed" /\ r.inner = "no ciphertext to decrypt" -> "NotFoundError"
      [] r.msg = "getStateAndDecrypt failed" -> "DecryptionError"
      [] OTHER -> "unknown"

(******************************* the cipher ********************************)

\* entities.NewAES256EncrypterEntity(ID, bccsp, key, IV): the key import
\* accepts exactly an AES-256 key; the IV is only stored.
NewAES256EncrypterEntity(key, v) ==
    [ok |-> ByteLen(key) = AES256KeyLen, key |-> key, iv |-> v]

\* ent.Encrypt(plaintext): CBC with the entity's IV, a random one (rnd) when
\* none was given; an IV that is not one block long is rejected.
Encrypt(ent, pt, rnd) ==
    IF ByteLen(ent.iv) = 0 THEN [ok |-> TRUE, ct |-> Cipher(ent.key, rnd, pt)]
    ELSE IF ByteLen(ent.iv) # 16 THEN [ok |-> FALSE, ct |-> NoValue]
    ELSE [ok |-> TRUE, ct |-> Cipher(ent.key, ent.iv, pt)]

\* The strings a decryption under the wrong key may leave after unpadding.
GarbageStrings == StringsUpTo({"x", Colon}, MaxFieldLen + 1)
DecryptFault == [ok |-> FALSE, pt |-> <<>>]
\* CBC has no integrity check: under the wrong key the padding check fails,
\* or it passes on bytes that are not the plaintext.
WrongKeyResults(ct) ==
    IF ct.kind # "cipher" THEN {DecryptFault}
    ELSE {DecryptFault} \cup {[ok |-> TRUE, pt |-> g] : g \in GarbageStrings \ {ct.body}}

\* ent.Decrypt(ciphertext).  The IV is read from the ciphertext, not from the
\* entity.  Stored plaintext (shorter than one block here) is no ciphertext.
\* wrong is the result the cipher yields should the key not be the one used.
Decrypt(ent, ct, wrong) ==
    IF ct.kind # "cipher" THEN DecryptFault
    ELSE IF ct.key = ent.key THEN [ok |-> TRUE, pt |-> ct.body]
    ELSE wrong

(****************************** the handlers *******************************)

\* Mutant: the arity check lets longer argument lists through.
addRecord_AtLeast4(L, args, putFault) ==
    IF Len(args) < 4
    THEN Outcome(Error("Incorrect arguments. Expecting a key and a value", <<>>, ""), L, <<>>)
    ELSE LET key == Join(args[1], args[2])
             value == Join(args[3], args[4])
         IN  IF putFault
             THEN Outcome(Error("Failed to set asset", args[1], ""), L, <<"put:fault">>)
             ELSE Outcome(Success(value), PutState(L, key, Plain(value)), <<"put">>)

\* Mutant: a put that reports a fault has written all the same.
addRecord_WriteOnFault(L, args, putFault) ==
    IF Len(args) # 4
    THEN Outcome(Error("Incorrect arguments. Expecting a key and a value", <<>>, ""), L, <<>>)
    ELSE LET key == Join(args[1], args[2])
             value == Join(args[3], args[4])
         IN  IF putFault
             THEN Outcome(Error("Failed to set asset", args[1], ""),
                          PutState(L, key, Plain(value)), <<"put:fault">>)
             ELSE Outcome(Success(value), PutState(L, key, Plain(value)), <<"put">>)

addRecord(L, args, putFault) ==
    IF Len(args) # 4
    THEN Outcome(Error("Incorrect arguments. Expecting a key and a value", <<>>, ""), L, <<>>)
    ELSE LET key == Join(args[1], args[2])
             value == Join(args[3], args[4])
         IN  IF putFault
             THEN Outcome(Error("Failed to set asset", args[1], ""), L, <<"put:fault">>)
             ELSE Outcome(Success(value), PutState(L, key, Plain(value)), <<"put">>)

\* Mutant: the stored value is returned whole, not split.
getRecord_NoSplit(L, args, getFault) ==
    IF Len(args) # 2
    THEN Outcome(Error("Incorrect arguments. Expecting a key", <<>>, ""), L, <<>>)
    ELSE LET key == Join(args[1], args[2])
             value == GetState(L, key)
         IN  IF getFault
             THEN Outcome(Error("Failed to get asset", args[1], "get failed"), L, <<"get:fault">>)
             ELSE IF value = NoValue
             THEN Outcome(Error("Asset not found", args[1], ""), L, <<"get">>)
             ELSE IF value.kind = "cipher"
             THEN Outcome(SuccessRaw(value), L, <<"get">>)
             ELSE Outcome(Success(value.body), L, <<"get">>)

\* Mutant: the nil check is missing, an absent value reads as empty.
getRecord_NoNilCheck(L, args, getFault) ==
    IF Len(args) # 2
    THEN Outcome(Error("Incorrect arguments. Expecting a key", <<>>, ""), L, <<>>)
    ELSE LET key == Join(args[1], args[2])
             value == GetState(L, key)
         IN  IF getFault
             THEN Outcome(Error("Failed to get asset", args[1], "get failed"), L, <<"get:fault">>)
             ELSE IF value.kind = "cipher"
             THEN Outcome(SuccessRaw(value), L, <<"get">>)
             ELSE Outcome(Success(SplitFirst(value.body)), L, <<"get">>)

getRecord(L, args, getFault) ==
    IF Len(args) # 2
    THEN Outcome(Error("Incorrect arguments. Expecting a key", <<>>, ""), L, <<>>)
    ELSE LET key == Join(args[1], args[2])
             value == GetState(L, key)
         IN  IF getFault
             THEN Outcome(Error("Failed to get asset", args[1], "get failed"), L, <<"get:fault">>)
             ELSE IF value = NoValue
             THEN Outcome(Error("Asset not found", args[1], ""), L, <<"get">>)
             ELSE IF value.kind = "cipher"
             THEN Outcome(SuccessRaw(value), L, <<"get">>)
             ELSE Outcome(Success(SplitFirst(value.body)), L, <<"get">>)

\* encryptAndPutState(stub, ent, key, value): encrypt, then put the ciphertext.
encryptAndPutState(L, ent, key, value, rnd, putFault) ==
    LET enc == Encrypt(ent, value, rnd)
    IN  IF ~enc.ok THEN [err |-> "encrypt failed", ledger |-> L, effects |-> <<"encrypt:fail">>]
        ELSE IF putFault
        THEN [err |-> "put failed", ledger |-> L, effects |-> <<"encrypt", "put:fault">>]
        ELSE [err |-> "", ledger |-> PutState(L, key, enc.ct), effects |-> <<"encrypt", "put">>]

\* Mutant: the arity check lets longer argument lists through.
Encrypter_AtLeast4(L, args, encKey, iv, rnd, putFault) ==
    LET ent == NewAES256EncrypterEntity(encKey, iv)
    IN  IF ~ent.ok
        THEN Outcome(Error("entities.NewAES256EncrypterEntity failed", <<>>, "key import failed"),
                     L, <<"newCipher:fail">>)
        ELSE IF Len(args) < 4
        THEN Outcome(Error("Expected 4 parameters to function Encrypter", <<>>, ""),
                     L, <<"newCipher">>)
        ELSE LET key == Join(args[1], args[2])
                 value == Join(args[3], args[4])
                 put == encryptAndPutState(L, ent, key, value, rnd, putFault)
             IN  IF put.err # ""
                 THEN Outcome(Error("encryptAndPutState failed", <<>>, put.err),
                              put.ledger, <<"newCipher">> \o put.effects)
                 ELSE Outcome(Success(value), put.ledger, <<"newCipher">> \o put.effects)

\* Mutant: the cleartext value is put as it is.
Encrypter_PlainPut(L, args, encKey, iv, rnd, putFault) ==
    LET ent == NewAES256EncrypterEntity(encKey, iv)
    IN  IF ~ent.ok
        THEN Outcome(Error("entities.NewAES256EncrypterEntity failed", <<>>, "key import failed"),
                     L, <<"newCipher:fail">>)
        ELSE IF Len(args) # 4
        THEN Outcome(Error("Expected 4 parameters to function Encrypter", <<>>, ""),
                     L, <<"newCipher">>)
        ELSE LET key == Join(args[1], args[2])
                 value == Join(args[3], args[4])
             IN  IF putFault
                 THEN Outcome(Error("encryptAndPutState failed", <<>>, "put failed"),
                              L, <<"newCipher", "put:fault">>)
                 ELSE Outcome(Success(value), PutState(L, key, Plain(value)),
                              <<"newCipher", "put">>)

Encrypter(L, args, encKey, iv, rnd, putFault) ==
    LET ent == NewAES256EncrypterEntity(encKey, iv)
    IN  IF ~ent.ok
        THEN Outcome(Error("entities.NewAES256EncrypterEntity failed", <<>>, "key import failed"),
                     L, <<"newCipher:fail">>)
        ELSE IF Len(args) # 4
        THEN Outcome(Error("Expected 4 parameters to function Encrypter", <<>>, ""),
                     L, <<"newCipher">>)
        ELSE LET key == Join(args[1], args[2])
                 value == Join(args[3], args[4])
                 put == encryptAndPutState(L, ent, key, value, rnd, putFault)
             IN  IF put.err # ""
                 THEN Outcome(Error("encryptAndPutState failed", <<>>, put.err),
                              put.ledger, <<"newCipher">> \o put.effects)
                 ELSE Outcome(Success(value), put.ledger, <<"newCipher">> \o put.effects)

\* getStateAndDecrypt(stub, ent, key): get the ciphertext, then decrypt it.
getStateAndDecrypt(L, ent, key, wrong, getFault) ==
    LET ciphertext == GetState(L, key)
    IN  IF getFault THEN [err |-> "get failed", pt |-> <<>>, effects |-> <<"get:fault">>]
        ELSE IF ciphertext = NoValue
        THEN [err |-> "no ciphertext to decrypt", pt |-> <<>>, effects |-> <<"get">>]
        ELSE LET dec == Decrypt(ent, ciphertext, wrong)
             IN  IF ~dec.ok
                 THEN [err |-> "decrypt failed", pt |-> <<>>, effects |-> <<"get", "decrypt:fail">>]
                 ELSE [err |-> "", pt |-> dec.pt, effects |-> <<"get", "decrypt">>]

\* Mutant: the decrypted value is returned whole, not split.
Decrypter_NoSplit(L, args, decKey, iv, wrong, getFault) ==
    LET ent == NewAES256EncrypterEntity(decKey, iv)
    IN  IF ~ent.ok
        THEN Outcome(Error("entities.NewAES256EncrypterEntity failed", <<>>, "key import failed"),
                     L, <<"newCipher:fail">>)
        ELSE IF Len(args) # 2
        THEN Outcome(Error("Expected 2 parameters to function Decrypter", <<>>, ""),
                     L, <<"newCipher">>)
        ELSE LET key == Join(args[1], args[2])
                 got == getStateAndDecrypt(L, ent, key, wrong, getFault)
             IN  IF got.err # ""
                 THEN Outcome(Error("getStateAndDecrypt failed", <<>>, got.err),
                              L, <<"newCipher">> \o got.effects)
                 ELSE Outcome(Success(got.pt), L, <<"newCipher">> \o got.effects)

Decrypter(L, args, decKey, iv, wrong, getFault) ==
    LET ent == NewAES256EncrypterEntity(decKey, iv)
    IN  IF ~ent.ok
        THEN Outcome(Error("entities.NewAES256EncrypterEntity failed", <<>>, "key import failed"),
                     L, <<"newCipher:fail">>)
        ELSE IF Len(args) # 2
        THEN Outcome(Error("Expected 2 parameters to function Decrypter", <<>>, ""),
                     L, <<"newCipher">>)
        ELSE LET key == Join(args[1], args[2])
                 got == getStateAndDecrypt(L, ent, key, wrong, getFault)
             IN  IF got.err # ""
                 THEN Outcome(Error("getStateAndDecrypt failed", <<>>, got.err),
                              L, <<"newCipher">> \o got.effects)
                 ELSE Outcome(Success(SplitFirst(got.pt)), L, <<"newCipher">> \o got.effects)

\* Mutant: encRecord and decRecord go on without looking for their key.
Invoke_NoSecretCheck(L, fn, args, tMap, env) ==
    CASE fn = "addRecord" -> addRecord(L, args, env.putFault)
      [] fn = "getRecord" -> getRecord(L, args, env.getFault)
      [] fn = "encRecord" ->
            Encrypter(L, args, Lookup(tMap, ENCKEY), Lookup(tMap, IV), env.rnd, env.putFault)
      [] fn = "decRecord" ->
            Decrypter(L, args, Lookup(tMap, DECKEY), Lookup(tMap, IV), env.wrong, env.getFault)
      [] OTHER -> Outcome(Error("Unsupported function", <<>>, ""), L, <<>>)

\* SimpleAsset.Invoke: dispatch on the function name.  stub.GetTransient
\* returns the proposal's transient map (the shim never fails it).
\* env carries what the collaborators answer: ledger faults, the random IV,
\* the result of a decryption under the wrong key.
Invoke(L, fn, args, tMap, env) ==
    CASE fn = "addRecord" -> addRecord(L, args, env.putFault)
      [] fn = "getRecord" -> getRecord(L, args, env.getFault)
      [] fn = "encRecord" ->
            IF ENCKEY \notin DOMAIN tMap
            THEN Outcome(Error("Expected transient encryption key", <<>>, ""), L, <<>>)
            ELSE Encrypter(L, args, tMap[ENCKEY], Lookup(tMap, IV), env.rnd, env.putFault)
      [] fn = "decRecord" ->
            IF DECKEY \notin DOMAIN tMap
            THEN Outcome(Error("Expected transient decryption key", <<>>, ""), L, <<>>)
            ELSE Decrypter(L, args, tMap[DECKEY], Lookup(tMap, IV), env.wrong, env.getFault)
      [] OTHER -> Outcome(Error("Unsupported function", <<>>, ""), L, <<>>)

(***************************** the state machine ***************************)

NoWrite == [op |-> "none", field1 |-> <<>>, field2 |-> <<>>, key |-> NilBytes, iv |-> NilBytes]

Env(putFault, getFault, rnd, wrong) ==
    [putFault |-> putFault, getFault |-> getFault, rnd |-> rnd, wrong |-> wrong]
Quiet == Env(FALSE, FALSE, "V2", DecryptFault)

Init ==
    /\ ledger = [k \in LedgerKeys |-> NoValue]
    /\ lastWrite = [k \in LedgerKeys |-> NoWrite]
    /\ pc = "idle"
    /\ call = NoCall
    /\ resp = NoResp
    /\ effects = <<>>

\* One transaction, taken up when idle: Invoke runs to completion on the
\* proposal (fn, args, tMap); lastWrite records the write when the put went
\* through.
Transaction(fn, args, tMap, env) ==
    /\ LET out == Invoke(ledger, fn, args, tMap, env)
       IN  /\ ledger' = out.ledger
           /\ resp' = out.resp
           /\ effects' = out.effects
           /\ lastWrite' =
                 IF \E i \in 1..Len(out.effects) : out.effects[i] = "put"
                 THEN [lastWrite EXCEPT ![Join(args[1], args[2])] =
                          [op |-> fn, field1 |-> args[3], field2 |-> args[4],
                           key |-> IF fn = "encRecord" THEN tMap[ENCKEY] ELSE NilBytes,
                           iv |-> IF fn = "encRecord" THEN Lookup(tMap, IV) ELSE NilBytes]]
                 ELSE lastWrite
    /\ call' = [fn |-> fn, args |-> args, tMap |-> tMap]
    /\ pc' = "returned"

\* Bundles sent along with operations that read no secret.
PlainBundles == {NoSecrets, KeyAndIV(ENCKEY, "K1", "V1")}
EncBundles == BundlesFor(ENCKEY, DECKEY)
DecBundles == BundlesFor(DECKEY, ENCKEY)

\* Whether a run of Invoke with quiet collaborators makes the call e: a
\* collaborator's answer is drawn only where Invoke asks for it.
Asks(fn, args, tMap, e) ==
    LET quiet == Invoke(ledger, fn, args, tMap, Quiet)
    IN  \E i \in 1..Len(quiet.effects) : quiet.effects[i] = e

AddRecordTx ==
    /\ pc = "idle"
    /\ \E args \in Args4 \cup ArgsOdd, tMap \in PlainBundles :
           \E putFault \in (IF Asks("addRecord", args, tMap, "put") THEN BOOLEAN ELSE {FALSE}) :
               Transaction("addRecord", args, tMap, Env(putFault, FALSE, "V2", DecryptFault))

GetRecordTx ==
    /\ pc = "idle"
    /\ \E args \in Args2 \cup ArgsOdd :
           \E getFault \in (IF Asks("getRecord", args, NoSecrets, "get") THEN BOOLEAN ELSE {FALSE}) :
               Transaction("getRecord", args, NoSecrets, Env(FALSE, getFault, "V2", DecryptFault))

EncRecordTx ==
    /\ pc = "idle"
    /\ \E args \in Args4 \cup ArgsOdd, tMap \in EncBundles :
           \E putFault \in (IF Asks("encRecord", args, tMap, "put") THEN BOOLEAN ELSE {FALSE}),
              rnd \in (IF Asks("encRecord", args, tMap, "encrypt") /\ IV \notin DOMAIN tMap
                       THEN RandomIVs ELSE {"V2"}) :
               Transaction("encRecord", args, tMap, Env(putFault, FALSE, rnd, DecryptFault))

DecRecordTx ==
    /\ pc = "idle"
    /\ \E args \in Args2 \cup ArgsOdd, tMap \in DecBundles :
           \E getFault \in (IF Asks("decRecord", args, tMap, "get") THEN BOOLEAN ELSE {FALSE}),
              wrong \in (IF Asks("decRecord", args, tMap, "decrypt:fail")
                         THEN WrongKeyResults(ledger[Join(args[1], args[2])])
                         ELSE {DecryptFault}) :
               Transaction("decRecord", args, tMap, Env(FALSE, getFault, "V2", wrong))

UnsupportedTx ==
    /\ pc = "idle"
    /\ \E args \in Args2 \cup ArgsOdd :
           Transaction("delRecord", args, NoSecrets, Quiet)

\* The response goes back to the client; the next proposal may arrive.
NextTransaction ==
    /\ pc = "returned"
    /\ pc' = "idle"
    /\ call' = NoCall
    /\ resp' = NoResp
    /\ effects' = <<>>
    /\ UNCHANGED <<ledger, lastWrite>>

Next ==
    \/ AddRecordTx
    \/ GetRecordTx
    \/ EncRecordTx
    \/ DecRecordTx
    \/ UnsupportedTx
    \/ NextTransaction

Spec == Init /\ [][Next]_vars

(******************************** properties *******************************)

\* Invoke has returned from operation fn.
Returned(fn) == pc = "returned" /\ call.fn = fn
\* Invoke made the collaborator call e.
Did(e) == \E i \in 1..Len(effects) : effects[i] = e
\* The composite key of the returned call, and the last write to it.
CallKey == Join(call.args[1], call.args[2])
Written == lastWrite[CallKey]
\* A step in which Invoke runs.
InvokeStep == pc = "idle" /\ pc' = "returned"

\* A decRecord(namespace, id) that read the ledger, on a record last written
\* by a successful encRecord.
DecOfEncrypted ==
    /\ Returned("decRecord")
    /\ Len(call.args) = 2
    /\ DECKEY \in DOMAIN call.tMap
    /\ Did("get")
    /\ Written.op = "encRecord"
SameKeyAndIV ==
    /\ call.tMap[DECKEY] = Written.key
    /\ Lookup(call.tMap, IV) = Written.iv

\* C1 as claimed: encRecord(namespace, id, field1, field2) under a key and IV,
\* then decRecord(namespace, id) under the same key and IV with no write to
\* the key in between, succeeds and returns field1, for every field1.
C1_RoundTripAnyField1 ==
    (DecOfEncrypted /\ SameKeyAndIV)
        => (resp.ok /\ resp.raw = NoValue /\ resp.payload = Written.field1)

\* C1 amended: the encrypted round trip returns field1 unchanged when field1
\* contains no colon.
C1_RoundTripNoColon ==
    (DecOfEncrypted /\ SameKeyAndIV /\ ~HasColon(Written.field1))
        => (resp.ok /\ resp.raw = NoValue /\ resp.payload = Written.field1)

C1_Witness ==
    /\ DecOfEncrypted /\ SameKeyAndIV
    /\ Written.field1 = <<"x">>
    /\ Written.iv = "V1"
    /\ resp.ok /\ resp.payload = <<"x">>

\* C2: for components without a colon, getRecord(namespace, id) returns
\* exactly the field1 of the most recent successful addRecord on that key.
C2_ReadYourLatestWrite ==
    ( /\ Returned("getRecord")
      /\ Len(call.args) = 2
      /\ Did("get")
      /\ ~HasColon(call.args[1]) /\ ~HasColon(call.args[2])
      /\ Written.op = "addRecord"
      /\ ~HasColon(Written.field1) /\ ~HasColon(Written.field2) )
        => (resp.ok /\ resp.raw = NoValue /\ resp.payload = Written.field1)

C2_Witness ==
    /\ Returned("getRecord") /\ Len(call.args) = 2 /\ Did("get")
    /\ ~HasColon(call.args[1]) /\ ~HasColon(call.args[2])
    /\ Written.op = "addRecord" /\ Written.field1 = <<"x">>
    /\ resp.ok /\ resp.payload = <<"x">>
    /\ \E k \in LedgerKeys \ {CallKey} : lastWrite[k].op # "none"

\* C3: encRecord without ENCKEY in the transient map, or decRecord without
\* DECKEY, fails with MissingSecretError whatever the arguments, makes no call
\* to the ledger or the cipher, and leaves the ledger unchanged.
C3_MissingSecretRejected ==
    [][ ( /\ InvokeStep
          /\ \/ call'.fn = "encRecord" /\ ENCKEY \notin DOMAIN call'.tMap
             \/ call'.fn = "decRecord" /\ DECKEY \notin DOMAIN call'.tMap )
        => ( /\ ErrorKind(resp') = "MissingSecretError"
             /\ effects' = <<>>
             /\ ledger' = ledger ) ]_vars

C3_Witness ==
    /\ Returned("encRecord")
    /\ call.tMap = OneKey(DECKEY, "K1")
    /\ Len(call.args) = 4
    /\ ErrorKind(resp) = "MissingSecretError"
    /\ \E k \in LedgerKeys : ledger[k] # NoValue

\* The secret byte string b occurs in the stored bytes v: a ciphertext begins
\* with its IV block.  Arguments are text and hold no secret bytes.
Holds(v, b) == v.kind = "cipher" /\ v.iv = b
\* Under key k the ledger holds the ciphertext of the last encRecord's
\* field1:field2 under the supplied key (and IV, if one was supplied), and
\* not the plaintext bytes.
StoresCiphertext(k) ==
    LET w == lastWrite[k]
        value == Join(w.field1, w.field2)
    IN  /\ ledger[k].kind = "cipher"
        /\ ledger[k].key = w.key
        /\ ledger[k].body = value
        /\ w.iv # NilBytes => ledger[k].iv = w.iv
        /\ ledger[k] # Plain(value)

C5_WrongKeyNeverField1 ==
    ( /\ DecOfEncrypted
      /\ ByteLen(call.tMap[DECKEY]) = AES256KeyLen
      /\ call.tMap[DECKEY] # Written.key )
        => \/ ErrorKind(resp) = "DecryptionError"
           \/ resp.ok /\ resp.payload # Written.field1

\* C6: getRecord(namespace, id), and decRecord(namespace, id) under a valid
\* key, on a composite key never written, never succeed; when the ledger
\* answers the read they fail with NotFoundError.
C6_NotFound ==
    ( /\ Returned("getRecord") \/ ( /\ Returned("decRecord")
                                   /\ DECKEY \in DOMAIN call.tMap
                                   /\ ByteLen(call.tMap[DECKEY]) = AES256KeyLen )
      /\ Len(call.args) = 2
      /\ Written.op = "none" )
        => /\ ~resp.ok
           /\ Did("get") => ErrorKind(resp) = "NotFoundError"

C6_Witness ==
    /\ Returned("decRecord")
    /\ call.tMap = OneKey(DECKEY, "K2")
    /\ Len(call.args) = 2
    /\ Written.op = "none"
    /\ ErrorKind(resp) = "NotFoundError"
    /\ \E k \in LedgerKeys : lastWrite[k].op = "encRecord" /\ lastWrite[k].key = "K2"

\* C7: an invocation that returns an error, of any operation or of an
\* unrecognised one, leaves the ledger as it was.
C7_NoMutationOnError ==
    [][ (InvokeStep /\ ~resp'.ok) => ledger' = ledger ]_vars

C7_Witness ==
    /\ Returned("encRecord") /\ ~resp.ok
    /\ Did("put:fault")
    /\ ledger[CallKey].kind = "plain"

\* C8: addRecord with a number of arguments other than four fails with
\* ArgumentError, issues no put and leaves the ledger unchanged.
C8_AddRecordArity ==
    [][ (InvokeStep /\ call'.fn = "addRecord" /\ Len(call'.args) # 4)
        => ( /\ ErrorKind(resp') = "ArgumentError"
             /\ effects' = <<>>
             /\ ledger' = ledger ) ]_vars

C8_Witness ==
    /\ Returned("addRecord") /\ Len(call.args) = 5
    /\ ErrorKind(resp) = "ArgumentError"
    /\ \E k \in LedgerKeys : ledger[k] # NoValue

\* C9 as claimed: encRecord with ENCKEY in the transient map, whatever the key
\* and IV bytes, and a number of arguments other than four fails with
\* ArgumentError.
C9_EncArityAnyKey ==
    ( /\ Returned("encRecord")
      /\ ENCKEY \in DOMAIN call.tMap
      /\ Len(call.args) # 4 )
        => ErrorKind(resp) = "ArgumentError"

\* C9 amended: encRecord with an AES-256 key under ENCKEY, whatever the IV
\* bytes, and a number of arguments other than four fails with ArgumentError.
C9_EncArityValidKey ==
    ( /\ Returned("encRecord")
      /\ ENCKEY \in DOMAIN call.tMap
      /\ ByteLen(call.tMap[ENCKEY]) = AES256KeyLen
      /\ Len(call.args) # 4 )
        => ErrorKind(resp) = "ArgumentError"

C9_Witness ==
    /\ Returned("encRecord")
    /\ call.tMap = KeyAndIV(ENCKEY, "K1", "Vshort")
    /\ Len(call.args) = 5
    /\ ErrorKind(resp) = "ArgumentError"

\* C10 as claimed: when the put fails during addRecord(namespace, id, field1,
\* field2), the error is a StorageWriteError whose message names the id.
C10_WriteFaultNamesId ==
    (Returned("addRecord") /\ Did("put:fault"))
        => (ErrorKind(resp) = "StorageWriteError" /\ resp.arg = call.args[2])

=============================================================================
